---- MODULE Spec2Model ----
(***************************************************************************)
(* StreamHub video catalogue (src/main.py, src/models.py, src/database.py) *)
(*                                                                         *)
(* The state is the committed "videos" table, the banner files under       *)
(* static/banners, and the position of each request handler.  Strings are  *)
(* sequences of one-character strings, so that strip, split, "in" and      *)
(* startswith are computed as Python computes them.                        *)
(*                                                                         *)
(* Handlers are coroutines on one event loop (uvicorn main:app): a handler *)
(* runs without interruption between two awaits.  The only awaits are in   *)
(* save_uploaded_file, so upload_video and update_video are cut there and  *)
(* delete_video is a single step.                                          *)
(*                                                                         *)
(* Faults are drawn nondeterministically at the writing steps: the banner  *)
(* write (aiofiles), the banner removal (os.remove) and the store commit.  *)
(* Reads of the store (query(...).first(), refresh) are taken to succeed.  *)
(***************************************************************************)
EXTENDS Integers, Sequences, FiniteSets, TLC

VARIABLES db, files, uuidCtr, clock, req, supplied

vars == <<db, files, uuidCtr, clock, req, supplied>>

(***************************************************************************)
(* Bounds of the model.                                                    *)
(***************************************************************************)
\* largest row id the table is let to reach
MaxVideos == 2
\* number of uuid4() file names drawn in one behaviour
MaxUuid == 2
\* number of timestamps (datetime.utcnow) written in one behaviour
MaxClock == 2

\* request slots; requests that do not overlap all run in slot 1
Procs == {1, 2}
Sequential == {1}

(***************************************************************************)
(* Program constants.                                                      *)
(***************************************************************************)
MaxTitleLen == 255

SeeOther == 303
BadRequest == 400
NotFound == 404
ServerError == 500

(***************************************************************************)
(* Strings.                                                                *)
(***************************************************************************)
Whitespace == {" "}

Rep(c, n) == [i \in 1..n |-> c]

Last(s) == s[Len(s)]

\* sub in s
Contains(s, sub) ==
    \E i \in 1..(Len(s) - Len(sub) + 1) : SubSeq(s, i, i + Len(sub) - 1) = sub

\* s.startswith(prefix)
StartsWith(s, prefix) ==
    /\ Len(s) >= Len(prefix)
    /\ SubSeq(s, 1, Len(prefix)) = prefix

\* s.strip(): from the first to the last character that is not whitespace
Strip(s) ==
    IF \A i \in 1..Len(s) : s[i] \in Whitespace THEN <<>>
    ELSE LET a == CHOOSE i \in 1..Len(s) :
                      /\ s[i] \notin Whitespace
                      /\ \A j \in 1..(i - 1) : s[j] \in Whitespace
             b == CHOOSE i \in 1..Len(s) :
                      /\ s[i] \notin Whitespace
                      /\ \A j \in (i + 1)..Len(s) : s[j] \in Whitespace
         IN  SubSeq(s, a, b)

\* s.split(sep): left to right, occurrences do not overlap
RECURSIVE Split(_, _)
Split(s, sep) ==
    LET hits == {i \in 1..(Len(s) - Len(sep) + 1) :
                     SubSeq(s, i, i + Len(sep) - 1) = sep}
    IN  IF hits = {} THEN <<s>>
        ELSE LET i == CHOOSE h \in hits : \A k \in hits : h <= k
             IN  <<SubSeq(s, 1, i - 1)>>
                     \o Split(SubSeq(s, i + Len(sep), Len(s)), sep)

\* s.replace(c, '') for a one-character c
Remove(s, c) == SelectSeq(s, LAMBDA x : x # c)

EmbedMark == <<"/", "e", "/">>
Slash == <<"/">>
Dot == <<".">>
TrustedHost == <<"s","t","r","e","a","m","t","a","p","e",".","c","o","m">>
ImagePrefix == <<"i","m","a","g","e","/">>
Jpg == <<"j","p","g">>
InvalidId == <<"i","n","v","a","l","i","d","_","i","d">>

(***************************************************************************)
(* Utility functions of main.py.                                           *)
(***************************************************************************)
\* extract_streamtape_id.  The except branch returning "invalid_id" is not
\* taken: url is a str (Form(...)), and in, split, indexing the non-empty
\* list split returns, and replace do not raise on a str.
extract_streamtape_id(url) ==
    IF Contains(url, EmbedMark)
    THEN Split(Last(Split(url, EmbedMark)), Slash)[1]
    ELSE Remove(Last(Split(url, Slash)), "/")

\* validate_form_input without its length check
ValidateNoLengthCheck(title, streamtape_url) ==
    IF title = <<>> \/ Len(Strip(title)) = 0 THEN "Title is required"
    ELSE IF streamtape_url = <<>> \/ ~Contains(streamtape_url, TrustedHost)
         THEN "Invalid Streamtape URL"
    ELSE "ok"

\* validate_form_input: "ok" or the detail of the HTTPException(400)
validate_form_input(title, streamtape_url) ==
    IF title = <<>> \/ Len(Strip(title)) = 0 THEN "Title is required"
    ELSE IF Len(Strip(title)) > MaxTitleLen THEN "Title too long"
    ELSE IF streamtape_url = <<>> \/ ~Contains(streamtape_url, TrustedHost)
         THEN "Invalid Streamtape URL"
    ELSE "ok"

\* file_extension of save_uploaded_file
FileExtension(filename) ==
    IF Contains(filename, Dot) THEN Last(Split(filename, Dot)) ELSE Jpg

NoPath == [uuid |-> 0, ext |-> <<>>]

\* f"static/banners/{uuid.uuid4()}.{file_extension}"
BannerPath(uuid, filename) == [uuid |-> uuid, ext |-> FileExtension(filename)]

\* save_uploaded_file.  fault: "none", "open" (aiofiles.open raises, no file
\* is created) or "write" (the file was created by open, read or write raises).
\* drew: uuid4() was called.
save_uploaded_file(file, storage, uuid, fault) ==
    IF file.filename = <<>>
    THEN [status |-> BadRequest, path |-> NoPath, files |-> storage,
          drew |-> FALSE]
    ELSE IF file.content_type = <<>> \/ ~StartsWith(file.content_type, ImagePrefix)
    THEN [status |-> BadRequest, path |-> NoPath, files |-> storage,
          drew |-> FALSE]
    ELSE LET file_path == BannerPath(uuid, file.filename)
         IN  CASE fault = "none" ->
                    [status |-> 0, path |-> file_path,
                     files |-> storage \cup {file_path}, drew |-> TRUE]
               [] fault = "open" ->
                    [status |-> ServerError, path |-> NoPath,
                     files |-> storage, drew |-> TRUE]
               [] OTHER ->
                    [status |-> ServerError, path |-> NoPath,
                     files |-> storage \cup {file_path}, drew |-> TRUE]

\* delete_file_safely without its try/except: the error of os.remove
\* reaches the caller
DeleteFileUnsafe(storage, file_path, fault) ==
    IF file_path # [uuid |-> 0, ext |-> <<>>] /\ file_path \in storage
    THEN IF fault THEN [files |-> storage, raised |-> TRUE]
                  ELSE [files |-> storage \ {file_path}, raised |-> FALSE]
    ELSE [files |-> storage, raised |-> FALSE]

\* delete_file_safely.  fault: os.remove raises; the exception is swallowed
\* and the file stays.  raised is what reaches the caller.
delete_file_safely(storage, file_path, fault) ==
    IF file_path # NoPath /\ file_path \in storage
    THEN IF fault THEN [files |-> storage, raised |-> FALSE]
                  ELSE [files |-> storage \ {file_path}, raised |-> FALSE]
    ELSE [files |-> storage, raised |-> FALSE]

(***************************************************************************)
(* The videos table (models.py) and the session (database.py).             *)
(***************************************************************************)
\* Python None in a nullable text column
None == <<"None">>

\* the mapped columns of Video that a handler assigns
Columns == {"title", "description", "hashtags", "streamtape_url",
            "streamtape_id", "banner_path"}

\* query(...).first() found no row
NoVideo == [id |-> 0, title |-> <<>>, description |-> None, hashtags |-> None,
            streamtape_url |-> <<>>, streamtape_id |-> <<>>,
            banner_path |-> NoPath, created_at |-> 0, updated_at |-> 0]

\* Video(title=..., ...) of upload_video: a pending object, no id yet
Video(title, description, hashtags, streamtape_url, streamtape_id, banner_path) ==
    [id |-> 0,
     title |-> Strip(title),
     description |-> IF description # <<>> THEN Strip(description) ELSE None,
     hashtags |-> IF hashtags # <<>> THEN Strip(hashtags) ELSE None,
     streamtape_url |-> Strip(streamtape_url),
     streamtape_id |-> streamtape_id,
     banner_path |-> banner_path,
     created_at |-> 0, updated_at |-> 0]

\* the query without its filter: the first row of the table
QueryFirstUnfiltered(store, video_id) ==
    IF DOMAIN store = {} THEN NoVideo
    ELSE store[CHOOSE i \in DOMAIN store : \A j \in DOMAIN store : i <= j]

\* db.query(Video).filter(Video.id == video_id).first()
QueryFirst(store, video_id) ==
    IF video_id \in DOMAIN store THEN store[video_id] ELSE NoVideo

\* a row id that does not step past the largest one
NextRowIdReuse(store) ==
    IF DOMAIN store = {} THEN 1
    ELSE CHOOSE i \in DOMAIN store : \A j \in DOMAIN store : i >= j

\* integer primary key of the default sqlite engine: largest rowid plus one
NextRowId(store) ==
    IF DOMAIN store = {} THEN 1
    ELSE (CHOOSE i \in DOMAIN store : \A j \in DOMAIN store : i >= j) + 1

\* db.add(video); db.commit(): INSERT with both timestamps defaulted to now
CommitInsert(store, video, now, fault) ==
    IF fault THEN [ok |-> FALSE, store |-> store, id |-> 0]
    ELSE LET id == NextRowId(store)
             row == [video EXCEPT !.id = id, !.created_at = now,
                                  !.updated_at = now]
         IN  [ok |-> TRUE, store |-> store @@ (id :> row), id |-> id]

\* db.commit() of update_video: UPDATE of the columns whose value changed
\* since the row was loaded, with updated_at refreshed (onupdate); no
\* statement when nothing changed; an UPDATE that matches no row raises.
CommitUpdate(store, loaded, video, now, fault) ==
    LET changed == {c \in Columns : video[c] # loaded[c]}
    IN  IF fault THEN [ok |-> FALSE, store |-> store, wrote |-> FALSE]
        ELSE IF changed = {} THEN [ok |-> TRUE, store |-> store, wrote |-> FALSE]
        ELSE IF video.id \notin DOMAIN store
             THEN [ok |-> FALSE, store |-> store, wrote |-> FALSE]
        ELSE LET old == store[video.id]
                 row == [c \in DOMAIN old |->
                            IF c \in changed THEN video[c]
                            ELSE IF c = "updated_at" THEN now
                            ELSE old[c]]
             IN  [ok |-> TRUE, store |-> [store EXCEPT ![video.id] = row],
                  wrote |-> TRUE]

\* db.delete(video); db.commit()
CommitDelete(store, video, fault) ==
    IF fault \/ video.id \notin DOMAIN store
    THEN [ok |-> FALSE, store |-> store]
    ELSE [ok |-> TRUE,
          store |-> [i \in DOMAIN store \ {video.id} |-> store[i]]]

\* a session whose close writes what is pending
SessionFlushOnClose(store, loaded, video) ==
    CommitUpdate(store, loaded, video, loaded.updated_at + 1, FALSE).store

\* get_db: db.close() in the finally clause ends the session; what the
\* session changed and did not commit is discarded
get_db_close(store, loaded, video) == store

(***************************************************************************)
(* Requests.                                                               *)
(***************************************************************************)
\* banner: Optional[UploadFile] = File(None)
NoBanner == [present |-> FALSE, filename |-> <<>>, content_type |-> <<>>]

UploadFile(filename, content_type) ==
    [present |-> TRUE, filename |-> filename, content_type |-> content_type]

\* A handler's frame.  op, pc and status are its position and response;
\* title .. banner are its parameters; video is the session's object and
\* loaded its values as read; file_path is file_path of upload_video and
\* new_banner_path of update_video.  db0, files0, saved, commit and removal
\* record what the call met: the table and storage when it began, whether
\* its banner was written, and how its commit and its os.remove ended.
IdleReq ==
    [op |-> "none", pc |-> "idle", status |-> 0, video_id |-> 0,
     title |-> <<>>, description |-> <<>>, hashtags |-> <<>>,
     streamtape_url |-> <<>>, banner |-> NoBanner,
     video |-> NoVideo, loaded |-> NoVideo,
     file_path |-> NoPath, old_banner_path |-> NoPath,
     db0 |-> <<>>, files0 |-> {}, saved |-> FALSE,
     commit |-> "none", removal |-> "none"]

\* how os.remove inside delete_file_safely ended
Removal(storage, file_path, fault) ==
    IF file_path = NoPath \/ file_path \notin storage THEN "missing"
    ELSE IF fault THEN "failed" ELSE "removed"

(***************************************************************************)
(* Inputs.                                                                 *)
(***************************************************************************)
Scheme == <<"h","t","t","p","s",":","/","/">>

ValidTitles ==
    { <<" ", "a", " ", "b", " ">>,
      <<" ">> \o Rep("a", MaxTitleLen) \o <<" ">> }

InvalidTitles ==
    { <<>>,
      <<" ", " ">>,
      Rep("a", MaxTitleLen + 1) }

ValidUrls ==
    { <<" ">> \o Scheme \o TrustedHost \o <<"/", "e", "/", "A", "/">>,
      Scheme \o TrustedHost \o <<"/", "A", "/">> }

InvalidUrls ==
    { <<>>,
      <<"x", ".", "c", "o", "m">> \o <<"/", "e", "/", "A">> }

\* description and hashtags sent along with a title
Meta(title) ==
    IF Len(title) <= 2
    THEN [description |-> <<>>, hashtags |-> <<>>]
    ELSE [description |-> <<" ", "d">>,
          hashtags |-> <<"a", ",", " ", "b", " ">>]

\* the text fields of a form: every valid title with every valid URL, each
\* invalid title and each invalid URL with every valid counterpart, and
\* both invalid
Forms ==
    LET pairs == (ValidTitles \X ValidUrls)
                    \cup (InvalidTitles \X ValidUrls)
                    \cup (ValidTitles \X InvalidUrls)
                    \cup {<<<<>>, <<>>>>}
    IN  {[title |-> f[1], streamtape_url |-> f[2],
          description |-> Meta(f[1]).description,
          hashtags |-> Meta(f[1]).hashtags] : f \in pairs}

ImageType == ImagePrefix \o <<"p">>
TextType == <<"t","e","x","t","/","p">>

Banners ==
    { UploadFile(<<>>, ImageType),
      UploadFile(<<"b">>, TextType),
      UploadFile(<<"b", ".", "p">>, ImageType) }

VideoIds == 1..(MaxVideos + 1)

SaveFaults == {"none", "open", "write"}

(***************************************************************************)
(* The state after startup: empty table (create_all), empty banner         *)
(* directory (create_directories), no request.                             *)
(***************************************************************************)
Init ==
    /\ db = <<>>
    /\ files = {}
    /\ uuidCtr = 0
    /\ clock = 0
    /\ req = [p \in Procs |-> IdleReq]
    /\ supplied = <<>>

Free(p) == req[p].pc = "idle"

NoForm == [title |-> <<>>, streamtape_url |-> <<>>, description |-> <<>>,
           hashtags |-> <<>>]

Begin(op, video_id, form, banner) ==
    [IdleReq EXCEPT !.op = op, !.video_id = video_id, !.title = form.title,
                    !.description = form.description,
                    !.hashtags = form.hashtags,
                    !.streamtape_url = form.streamtape_url,
                    !.banner = banner, !.db0 = db, !.files0 = files]

Respond(r, status) == [r EXCEPT !.pc = "done", !.status = status]

(***************************************************************************)
(* upload_video                                                            *)
(***************************************************************************)
\* except clauses that only re-raise
UploadExceptNoCleanup(storage, file_path, fault) == storage

\* the except clauses of upload_video: 'file_path' is a local once
\* save_uploaded_file has returned
upload_except(storage, file_path, fault) ==
    IF file_path # NoPath
    THEN delete_file_safely(storage, file_path, fault).files
    ELSE storage

\* validate_form_input, then the call of save_uploaded_file (first await)
UploadBegin(p, form, banner) ==
    /\ Free(p)
    /\ uuidCtr < MaxUuid
    /\ clock < MaxClock
    /\ NextRowId(db) <= MaxVideos
    /\ LET r == Begin("upload", 0, form, banner)
       IN  req' = [req EXCEPT ![p] =
                      IF validate_form_input(form.title, form.streamtape_url)
                             # "ok"
                      THEN Respond(r, BadRequest)
                      ELSE [r EXCEPT !.pc = "save"]]
    /\ UNCHANGED <<db, files, uuidCtr, clock, supplied>>

\* save_uploaded_file returns or raises; an HTTPException is re-raised
\* (no file_path yet, nothing to clean up)
UploadSave(p, fault) ==
    /\ req[p].op = "upload"
    /\ req[p].pc = "save"
    /\ LET r == req[p]
           s == save_uploaded_file(r.banner, files, uuidCtr + 1, fault)
       IN  /\ files' = s.files
           /\ uuidCtr' = IF s.drew THEN uuidCtr + 1 ELSE uuidCtr
           /\ req' = [req EXCEPT ![p] =
                         IF s.status # 0
                         THEN Respond(r, s.status)
                         ELSE [r EXCEPT !.pc = "store", !.file_path = s.path,
                                        !.saved = TRUE]]
    /\ UNCHANGED <<db, clock, supplied>>

\* extract the id, build the Video, add, commit, refresh, redirect; on an
\* exception clean up and answer 500
UploadStore(p, commitFault, deleteFault) ==
    /\ req[p].op = "upload"
    /\ req[p].pc = "store"
    /\ LET r == req[p]
           streamtape_id == extract_streamtape_id(r.streamtape_url)
           video == Video(r.title, r.description, r.hashtags,
                          r.streamtape_url, streamtape_id, r.file_path)
           c == CommitInsert(db, video, clock + 1, commitFault)
       IN  IF c.ok
           THEN /\ db' = c.store
                /\ clock' = clock + 1
                /\ supplied' = supplied @@ (c.id :> r.title)
                /\ req' = [req EXCEPT ![p] =
                              Respond([r EXCEPT !.commit = "ok",
                                                !.video = c.store[c.id]],
                                      SeeOther)]
                /\ UNCHANGED <<files, uuidCtr>>
           ELSE /\ db' = get_db_close(db, NoVideo, video)
                /\ files' = upload_except(files, r.file_path, deleteFault)
                /\ req' = [req EXCEPT ![p] =
                              Respond([r EXCEPT !.commit = "failed",
                                                !.removal = Removal(files,
                                                    r.file_path, deleteFault)],
                                      ServerError)]
                /\ UNCHANGED <<uuidCtr, clock, supplied>>

(***************************************************************************)
(* delete_video: no await, one step                                        *)
(***************************************************************************)
delete_video(p, video_id, deleteFault, commitFault) ==
    /\ Free(p)
    /\ LET r == Begin("delete", video_id, NoForm, NoBanner)
           video == QueryFirst(db, video_id)
           d == delete_file_safely(files, video.banner_path, deleteFault)
           c == CommitDelete(db, video, commitFault)
           met == [r EXCEPT !.loaded = video, !.video = video,
                            !.old_banner_path = video.banner_path,
                            !.removal = Removal(files, video.banner_path,
                                                deleteFault)]
       IN  IF video = NoVideo
           THEN /\ req' = [req EXCEPT ![p] = Respond(r, NotFound)]
                /\ UNCHANGED <<db, files, supplied>>
           ELSE IF d.raised
           THEN /\ req' = [req EXCEPT ![p] = Respond(met, ServerError)]
                /\ files' = d.files
                /\ db' = get_db_close(db, video, video)
                /\ UNCHANGED supplied
           ELSE IF c.ok
           THEN /\ req' = [req EXCEPT ![p] =
                              Respond([met EXCEPT !.commit = "ok"], SeeOther)]
                /\ files' = d.files
                /\ db' = c.store
                /\ supplied' = [i \in DOMAIN supplied \ {video_id} |->
                                   supplied[i]]
           ELSE /\ req' = [req EXCEPT ![p] =
                              Respond([met EXCEPT !.commit = "failed"],
                                      ServerError)]
                /\ files' = d.files
                /\ db' = get_db_close(db, video, video)
                /\ UNCHANGED supplied
    /\ UNCHANGED <<uuidCtr, clock>>

(***************************************************************************)
(* update_video                                                            *)
(***************************************************************************)
\* the basic fields with the title assigned as sent
UpdateFieldsUntrimmed(video, title, description, hashtags, streamtape_url) ==
    [video EXCEPT
        !.title = title,
        !.description = IF description # <<>> THEN Strip(description) ELSE None,
        !.hashtags = IF hashtags # <<>> THEN Strip(hashtags) ELSE None,
        !.streamtape_url = Strip(streamtape_url),
        !.streamtape_id = extract_streamtape_id(streamtape_url)]

\* "Update basic fields": assignments to the session's object
update_fields(video, title, description, hashtags, streamtape_url) ==
    [video EXCEPT
        !.title = Strip(title),
        !.description = IF description # <<>> THEN Strip(description) ELSE None,
        !.hashtags = IF hashtags # <<>> THEN Strip(hashtags) ELSE None,
        !.streamtape_url = Strip(streamtape_url),
        !.streamtape_id = extract_streamtape_id(streamtape_url)]

\* if banner and banner.filename
HasNewFile(banner) == banner.present /\ banner.filename # <<>>

\* the old banner removed whenever it differs from new_banner_path, set
\* or not
UpdateBannerAlwaysCleans(storage, video, old_banner_path, new_banner_path, fault) ==
    LET d == IF old_banner_path # new_banner_path
             THEN delete_file_safely(storage, old_banner_path, fault)
             ELSE [files |-> storage, raised |-> FALSE]
    IN  [video |-> IF new_banner_path = NoPath THEN video
                   ELSE [video EXCEPT !.banner_path = new_banner_path],
         files |-> d.files, raised |-> d.raised]

\* "Update banner if new one is uploaded", after save_uploaded_file has
\* returned new_banner_path (NoPath: the if was not taken): assign the new
\* path and remove the old file, before the commit
update_banner(storage, video, old_banner_path, new_banner_path, fault) ==
    IF new_banner_path = NoPath
    THEN [video |-> video, files |-> storage, raised |-> FALSE]
    ELSE LET d == IF old_banner_path # new_banner_path
                  THEN delete_file_safely(storage, old_banner_path, fault)
                  ELSE [files |-> storage, raised |-> FALSE]
         IN  [video |-> [video EXCEPT !.banner_path = new_banner_path],
              files |-> d.files, raised |-> d.raised]

\* query, 404, validate, assign the basic fields; then either the call of
\* save_uploaded_file (await) or straight on to the commit
UpdateBegin(p, video_id, form, banner) ==
    /\ Free(p)
    /\ clock < MaxClock
    /\ HasNewFile(banner) => uuidCtr < MaxUuid
    /\ LET r == Begin("update", video_id, form, banner)
           video == QueryFirst(db, video_id)
       IN  req' = [req EXCEPT ![p] =
                      IF video = NoVideo THEN Respond(r, NotFound)
                      ELSE IF validate_form_input(form.title,
                                                  form.streamtape_url) # "ok"
                      THEN Respond(r, BadRequest)
                      ELSE [r EXCEPT
                              !.loaded = video,
                              !.old_banner_path = video.banner_path,
                              !.video = update_fields(video, form.title,
                                  form.description, form.hashtags,
                                  form.streamtape_url),
                              !.pc = IF HasNewFile(banner) THEN "save"
                                     ELSE "store"]]
    /\ UNCHANGED <<db, files, uuidCtr, clock, supplied>>

\* save_uploaded_file returns or raises; an HTTPException is re-raised and
\* the session is closed without a commit
UpdateSave(p, fault) ==
    /\ req[p].op = "update"
    /\ req[p].pc = "save"
    /\ LET r == req[p]
           s == save_uploaded_file(r.banner, files, uuidCtr + 1, fault)
       IN  /\ files' = s.files
           /\ uuidCtr' = IF s.drew THEN uuidCtr + 1 ELSE uuidCtr
           /\ IF s.status # 0
              THEN /\ req' = [req EXCEPT ![p] = Respond(r, s.status)]
                   /\ db' = get_db_close(db, r.loaded, r.video)
              ELSE /\ req' = [req EXCEPT ![p] =
                                 [r EXCEPT !.pc = "store",
                                           !.file_path = s.path,
                                           !.saved = TRUE]]
                   /\ db' = db
    /\ UNCHANGED <<clock, supplied>>

\* the banner replacement if a new file was saved, then db.commit()
UpdateStore(p, deleteFault, commitFault) ==
    /\ req[p].op = "update"
    /\ req[p].pc = "store"
    /\ LET r == req[p]
           b == update_banner(files, r.video, r.old_banner_path, r.file_path,
                              deleteFault)
           c == CommitUpdate(db, r.loaded, b.video, clock + 1, commitFault)
           met == [r EXCEPT !.video = b.video,
                            !.removal =
                                IF b.files # files
                                       \/ (r.file_path # NoPath
                                           /\ r.old_banner_path # r.file_path)
                                THEN Removal(files, r.old_banner_path,
                                             deleteFault)
                                ELSE "none"]
       IN  /\ files' = b.files
           /\ IF b.raised
              THEN /\ req' = [req EXCEPT ![p] = Respond(met, ServerError)]
                   /\ db' = get_db_close(db, r.loaded, b.video)
                   /\ UNCHANGED <<clock, supplied>>
              ELSE IF c.ok
              THEN /\ req' = [req EXCEPT ![p] =
                                 Respond([met EXCEPT !.commit = "ok"],
                                         SeeOther)]
                   /\ db' = c.store
                   /\ clock' = IF c.wrote THEN clock + 1 ELSE clock
                   /\ supplied' = [supplied EXCEPT ![r.video_id] = r.title]
              ELSE /\ req' = [req EXCEPT ![p] =
                                 Respond([met EXCEPT !.commit = "failed"],
                                         ServerError)]
                   /\ db' = get_db_close(db, r.loaded, b.video)
                   /\ UNCHANGED <<clock, supplied>>
    /\ UNCHANGED uuidCtr

(***************************************************************************)
(* The response has been sent and get_db has closed the session: the       *)
(* handler's frame is gone.                                                *)
(***************************************************************************)
Return(p) ==
    /\ req[p].pc = "done"
    /\ req' = [req EXCEPT ![p] = IdleReq]
    /\ UNCHANGED <<db, files, uuidCtr, clock, supplied>>

(***************************************************************************)
(* Requests that do not overlap: one handler at a time, in slot 1.         *)
(***************************************************************************)
Next ==
    \E p \in Sequential :
        \/ \E form \in Forms, banner \in Banners :
               UploadBegin(p, form, banner)
        \/ \E fault \in SaveFaults : UploadSave(p, fault)
        \/ \E commitFault \in BOOLEAN, deleteFault \in BOOLEAN :
               UploadStore(p, commitFault, deleteFault)
        \/ \E video_id \in VideoIds, deleteFault \in BOOLEAN,
              commitFault \in BOOLEAN :
               delete_video(p, video_id, deleteFault, commitFault)
        \/ \E video_id \in VideoIds, form \in Forms,
              banner \in Banners \cup {NoBanner} :
               UpdateBegin(p, video_id, form, banner)
        \/ \E fault \in SaveFaults : UpdateSave(p, fault)
        \/ \E deleteFault \in BOOLEAN, commitFault \in BOOLEAN :
               UpdateStore(p, deleteFault, commitFault)
        \/ Return(p)

Spec == Init /\ [][Next]_vars

(***************************************************************************)
(* Properties.  In each, r is the frame of the request in slot p; db0 and  *)
(* files0 are the table and the storage as the request found them.         *)
(***************************************************************************)

\* C1: an Upload that passed validation and wrote its banner, and whose
\* commit then failed, answers with an error, has added no row, and its
\* banner file is gone from storage (when os.remove did not fail).
UploadCompensates ==
    \A p \in Sequential :
        LET r == req[p]
        IN  (/\ r.op = "upload" /\ r.pc = "done"
             /\ r.saved /\ r.commit = "failed" /\ r.removal # "failed")
            => /\ r.status = ServerError
               /\ db = r.db0
               /\ r.file_path \notin files

UploadCompensatesWitness ==
    \E p \in Sequential :
        /\ req[p].op = "upload" /\ req[p].pc = "done"
        /\ req[p].saved /\ req[p].commit = "failed"
        /\ req[p].removal = "removed"
        /\ req[p].file_path # NoPath
        /\ req[p].file_path \notin files
        /\ req[p].db0 # <<>>

\* C2: the committed record of the id an Update is about never references
\* a banner file that this Update has removed.
UpdateNeverRemovesReferencedBanner ==
    \A p \in Sequential :
        LET r == req[p]
        IN  (/\ r.op = "update" /\ r.removal = "removed"
             /\ r.video_id \in DOMAIN db)
            => db[r.video_id].banner_path # r.old_banner_path

\* C3: an Update of an existing id with a new file whose storing fails
\* answers with the error of save_uploaded_file (400 for a content type
\* that is not an image, 500 for a write error), and the table and the
\* existing banner file are as the request found them.
UpdateSaveFailureChangesNothing ==
    \A p \in Sequential :
        LET r == req[p]
        IN  (/\ r.op = "update" /\ r.pc = "done"
             /\ r.video_id \in DOMAIN r.db0
             /\ validate_form_input(r.title, r.streamtape_url) = "ok"
             /\ HasNewFile(r.banner) /\ ~r.saved)
            => /\ r.status = IF StartsWith(r.banner.content_type, ImagePrefix)
                             THEN ServerError ELSE BadRequest
               /\ db = r.db0
               /\ (r.db0[r.video_id].banner_path \in files)
                      <=> (r.db0[r.video_id].banner_path \in r.files0)

UpdateSaveFailureWitness ==
    \E p \in Sequential :
        /\ req[p].op = "update" /\ req[p].pc = "done"
        /\ HasNewFile(req[p].banner) /\ ~req[p].saved
        /\ req[p].status = ServerError
        /\ req[p].video.title # req[p].loaded.title
        /\ req[p].loaded.banner_path \in files
        /\ db = req[p].db0

\* C4: an Upload whose title is empty or blank after trimming, or longer
\* than 255 characters after trimming, or whose URL is empty or lacks
\* "streamtape.com", answers 400 at once: it writes no file and adds no row.
InvalidForm(title, streamtape_url) ==
    \/ Strip(title) = <<>>
    \/ Len(Strip(title)) > 255
    \/ streamtape_url = <<>>
    \/ ~Contains(streamtape_url, TrustedHost)

UploadRejectsInvalidForm ==
    \A p \in Sequential :
        LET r == req[p]
        IN  (/\ r.op = "upload"
             /\ InvalidForm(r.title, r.streamtape_url))
            => /\ r.pc = "done"
               /\ r.status = BadRequest
               /\ ~r.saved
               /\ db = r.db0
               /\ files = r.files0

UploadRejectsInvalidFormWitness ==
    \E p \in Sequential :
        /\ req[p].op = "upload" /\ req[p].pc = "done"
        /\ Len(Strip(req[p].title)) = 256
        /\ Contains(req[p].streamtape_url, TrustedHost)
        /\ req[p].status = BadRequest
        /\ files = req[p].files0

\* C5: a successful Upload adds exactly one record, under an id no other
\* record has; the file its banner_path names is on storage; the query by
\* that id returns the record; the records there before are unchanged.
UploadAddsOneRecord ==
    \A p \in Sequential :
        LET r == req[p]
        IN  (r.op = "upload" /\ r.pc = "done" /\ r.status = SeeOther)
            => \E id \in DOMAIN db \ DOMAIN r.db0 :
                  /\ DOMAIN db = DOMAIN r.db0 \cup {id}
                  /\ \A i \in DOMAIN r.db0 : db[i] = r.db0[i]
                  /\ \A i \in DOMAIN db : db[i].id = i
                  /\ db[id].banner_path = r.file_path
                  /\ db[id].banner_path \in files
                  /\ QueryFirst(db, id).id = id
                  /\ QueryFirst(db, id).title = Strip(r.title)
                  /\ QueryFirst(db, id).streamtape_url = Strip(r.streamtape_url)

UploadAddsOneRecordWitness ==
    \E p \in Sequential :
        /\ req[p].op = "upload" /\ req[p].pc = "done"
        /\ req[p].status = SeeOther
        /\ req[p].db0 # <<>>
        /\ Cardinality(DOMAIN db) = 2

\* C6: Delete of an id that names no record answers 404 and leaves the
\* table and the banner files as they were.
DeleteMissingIsNotFound ==
    \A p \in Sequential :
        LET r == req[p]
        IN  (/\ r.op = "delete" /\ r.pc = "done"
             /\ r.video_id \notin DOMAIN r.db0)
            => /\ r.status = NotFound
               /\ db = r.db0
               /\ files = r.files0

DeleteMissingWitness ==
    \E p \in Sequential :
        /\ req[p].op = "delete" /\ req[p].pc = "done"
        /\ req[p].video_id \notin DOMAIN req[p].db0
        /\ req[p].db0 # <<>>
        /\ req[p].files0 # {}
        /\ req[p].status = NotFound

\* C7: in a Delete of an existing id, a banner file that cannot be removed
\* or is already missing raises nothing: the row deletion is committed
\* all the same, and once that commit succeeds the row is gone.
DeleteIgnoresFileErrors ==
    \A p \in Sequential :
        LET r == req[p]
        IN  (/\ r.op = "delete" /\ r.pc = "done"
             /\ r.video_id \in DOMAIN r.db0
             /\ r.removal \in {"failed", "missing"})
            => /\ r.commit # "none"
               /\ r.commit = "ok" =>
                     /\ r.status = SeeOther
                     /\ r.video_id \notin DOMAIN db

DeleteIgnoresFileErrorsWitness ==
    \E p \in Sequential :
        /\ req[p].op = "delete" /\ req[p].pc = "done"
        /\ req[p].removal = "failed"
        /\ req[p].old_banner_path \in files
        /\ req[p].status = SeeOther
        /\ req[p].video_id \in DOMAIN req[p].db0
        /\ req[p].video_id \notin DOMAIN db

\* C8: an Update without a new file (no banner, or a banner whose file
\* name is empty) keeps the record's banner_path and removes no file: the
\* banner files are the same before and after, whether it succeeds or fails.
UpdateWithoutFileKeepsBanner ==
    \A p \in Sequential :
        LET r == req[p]
        IN  (r.op = "update" /\ ~HasNewFile(r.banner))
            => /\ files = r.files0
               /\ r.video_id \in DOMAIN r.db0 =>
                     /\ r.video_id \in DOMAIN db
                     /\ db[r.video_id].banner_path
                            = r.db0[r.video_id].banner_path

UpdateWithoutFileWitness ==
    \E p \in Sequential :
        /\ req[p].op = "update" /\ req[p].pc = "done"
        /\ req[p].banner.present /\ req[p].banner.filename = <<>>
        /\ req[p].status = SeeOther
        /\ db # req[p].db0
        /\ req[p].files0 # {}
        /\ db[req[p].video_id].banner_path \in files

\* C9: the embed id is the segment after "/e/" up to the next "/" when the
\* URL contains "/e/", else the last non-empty path segment, and
\* "invalid_id" when that yields nothing; so no persisted streamtape_id is
\* the empty string.
ClaimedEmbedIds(url) ==
    LET after == Split(url, EmbedMark)
        segs == Split(url, Slash)
        full == {i \in 1..Len(segs) : segs[i] # <<>>}
        lastFull == IF full = {} THEN <<>>
                    ELSE segs[CHOOSE i \in full : \A j \in full : i >= j]
    IN  IF Contains(url, EmbedMark)
        THEN IF Split(after[2], Slash)[1] # <<>>
             THEN {Split(after[2], Slash)[1]}
             ELSE {InvalidId}
        ELSE IF Last(segs) # <<>> THEN {Last(segs)}
             ELSE {lastFull, InvalidId} \ {<<>>}

EmbedIdNeverEmpty ==
    /\ \A p \in Sequential :
           LET r == req[p]
           IN  (r.op \in {"upload", "update"} /\ r.commit = "ok")
               => r.video.streamtape_id \in ClaimedEmbedIds(r.streamtape_url)
    /\ \A id \in DOMAIN db : db[id].streamtape_id # <<>>

\* C10: every persisted title is the trimmed form of the title sent with
\* the last Upload or Update of that id that was committed, and is 1 to
\* 255 characters long.
PersistedTitleIsTrimmed ==
    /\ DOMAIN supplied = DOMAIN db
    /\ \A id \in DOMAIN db :
           /\ db[id].title = Strip(supplied[id])
           /\ Len(db[id].title) >= 1
           /\ Len(db[id].title) <= 255

PersistedTitleWitness ==
    \E p \in Sequential :
        /\ req[p].op = "update" /\ req[p].pc = "done"
        /\ req[p].status = SeeOther
        /\ Len(req[p].title) = 257
        /\ Len(db[req[p].video_id].title) = 255
        /\ req[p].db0[req[p].video_id].title = <<"a", " ", "b">>

\* C11: no orphaned banner files.  Every completed request that found each
\* banner file referenced by exactly one record leaves it so, whether its
\* file write or its commit failed or not (an os.remove that fails is not
\* counted against it).
EachFileReferencedOnce(store, storage) ==
    \A f \in storage :
        Cardinality({id \in DOMAIN store : store[id].banner_path = f}) = 1

NoOrphanedBannerFiles ==
    \A p \in Sequential :
        LET r == req[p]
        IN  (/\ r.pc = "done"
             /\ r.removal # "failed"
             /\ EachFileReferencedOnce(r.db0, r.files0))
            => EachFileReferencedOnce(db, files)

\* C11, the case the claim names: an Update whose commit fails after its new
\* banner was stored leaves no file behind.
UpdateCommitFailureLeavesNoFile ==
    \A p \in Sequential :
        LET r == req[p]
        IN  (/\ r.op = "update" /\ r.pc = "done"
             /\ r.saved /\ r.commit = "failed")
            => r.file_path \notin files

(***************************************************************************)
(* Two requests that overlap.  The table holds one video, as a successful  *)
(* Upload left it; Update and Delete requests arrive in both slots and are *)
(* interleaved at the awaits of save_uploaded_file.  A request arrives     *)
(* while the other slot is idle or in flight, so that two finished         *)
(* requests are always two that ran at the same time.                      *)
(***************************************************************************)
ValidForms ==
    {f \in Forms : validate_form_input(f.title, f.streamtape_url) = "ok"}

\* the form the video was uploaded with, and the form of the updates (the
\* other URL); the ids asked for: the uploaded video's and one that names
\* no record
FirstForms ==
    {f \in ValidForms : Len(f.title) < MaxTitleLen /\ f.streamtape_url[1] = " "}

LaterForms ==
    {f \in ValidForms : Len(f.title) < MaxTitleLen /\ f.streamtape_url[1] # " "}

ConcIds == 1..2

\* the committed row and its banner after upload_video of form
Uploaded(form) ==
    LET file_path == BannerPath(1, <<"b", ".", "p">>)
        video == Video(form.title, form.description, form.hashtags,
                       form.streamtape_url,
                       extract_streamtape_id(form.streamtape_url), file_path)
    IN  [store |-> CommitInsert(<<>>, video, 1, FALSE).store,
         files |-> {file_path}]

InitConc ==
    \E form \in FirstForms :
        /\ db = Uploaded(form).store
        /\ files = Uploaded(form).files
        /\ uuidCtr = 1
        /\ clock = 1
        /\ req = [p \in Procs |-> IdleReq]
        /\ supplied = (1 :> form.title)

\* the other handler has not yet finished
Arrives(p) == \A q \in Procs \ {p} : req[q].pc # "done"

NextConc ==
    \E p \in Procs :
        \/ /\ Arrives(p)
           /\ \E video_id \in ConcIds, form \in LaterForms,
                 banner \in Banners \cup {NoBanner} :
                  UpdateBegin(p, video_id, form, banner)
        \/ \E fault \in SaveFaults : UpdateSave(p, fault)
        \/ \E deleteFault \in BOOLEAN, commitFault \in BOOLEAN :
               UpdateStore(p, deleteFault, commitFault)
        \/ /\ Arrives(p)
           /\ \E video_id \in ConcIds, deleteFault \in BOOLEAN,
                 commitFault \in BOOLEAN :
                  delete_video(p, video_id, deleteFault, commitFault)
        \/ Return(p)

SpecConc == InitConc /\ [][NextConc]_vars

\* the two finished requests of the pair: an Update that brought a new
\* banner, with another such Update or a Delete on the same id
ClaimedPair(r1, r2) ==
    /\ r1.pc = "done" /\ r2.pc = "done"
    /\ r1.video_id = r2.video_id
    /\ r1.op = "update" /\ HasNewFile(r1.banner)
    /\ \/ r2.op = "delete"
       \/ r2.op = "update" /\ HasNewFile(r2.banner)

\* C12: once two overlapping requests on the same id have finished (two
\* Updates that each brought a new banner, or such an Update and a Delete),
\* a record still persisted under that id names a banner file that is on
\* storage.
ConcurrentPairKeepsBanner ==
    \A p \in Procs, q \in Procs :
        (/\ p # q
         /\ ClaimedPair(req[p], req[q])
         /\ req[p].video_id \in DOMAIN db)
        => db[req[p].video_id].banner_path \in files

====
